---- MODULE Spec2Model ----
(***************************************************************************)
(* Corner-pin video player (WebGL variant): settings store, keyboard mode  *)
(* machine, quad geometry and debounce timer.                              *)
(*                                                                         *)
(* Numbers.  The program computes in IEEE doubles.  The model keeps exact  *)
(* rationals as integers in fixed units:                                   *)
(*   canvasScale          hundredths            (1.0 = 100)                *)
(*   canvasX, canvasY     CSS pixels                                       *)
(*   corner offsets, uv   1/17280 of the frame  (17280 = lcm(1920,1080))   *)
(*   time                 milliseconds                                     *)
(* The two infinities, which JSON.parse produces for an overflowing        *)
(* literal such as 1e999, are the sentinels PosInf and NegInf.             *)
(***************************************************************************)
EXTENDS Integers, Sequences, FiniteSets, TLC

\* ------------------------------------------------------------------ bounds
MaxKeys == 2            \* key events handled in one behaviour
TickMs == 150           \* granularity of the passage of time
VideoSizes == {<<960, 540>>}   \* intrinsic sizes a loaded video may have

\* --------------------------------------------------------------- constants
Corners == {"TL", "TR", "BL", "BR"}
UnitsPerFrame == 17280
PosInf == 1000000000
NegInf == -1000000000
ScaleUnit == 100
SCALE_MAX == 200
SCALE_MIN == 20
SAVE_DELAY == 300
SPACE_DEBOUNCE_MS == 250
FallbackWidth == 1920
FallbackHeight == 1080

IsFinite(n) == n # PosInf /\ n # NegInf
\* double addition of a finite step to a value that may be infinite
Plus(a, b) == IF IsFinite(a) THEN a + b ELSE a
Minus(a, b) == IF IsFinite(a) THEN a - b ELSE a
\* c - a for a finite c
SubFrom(c, a) == IF a = PosInf THEN NegInf ELSE IF a = NegInf THEN PosInf ELSE c - a
Min2(a, b) == IF a < b THEN a ELSE b
Max2(a, b) == IF a > b THEN a ELSE b

\* ------------------------------------------------------------ JSON values
\* A JSON value of a scalar field: its typeof tag and, for numbers and
\* booleans, its value.
JNum(n) == [t |-> "number", n |-> n]
JBool(b) == [t |-> "boolean", n |-> IF b THEN 1 ELSE 0]
JStr == [t |-> "string", n |-> 0]
JNull == [t |-> "null", n |-> 0]
JUndef == [t |-> "undefined", n |-> 0]
\* typeof: null is an object
TypeOf(j) == IF j.t = "null" THEN "object" ELSE j.t

\* one corner entry of a stored cornerOffsets value
JCorner(x, y) == [t |-> "object", x |-> x, y |-> y]
JNoCorner == [t |-> "undefined", x |-> JUndef, y |-> JUndef]
JNoCorners == [c \in Corners |-> JNoCorner]
\* the cornerOffsets field of a stored record
JOffsets(t, cs) == [t |-> t, c |-> cs]
JNoOffsets == JOffsets("undefined", JNoCorners)

\* The text in the storage slot, by what JSON.parse makes of it.
\* kind: "absent" (getItem returns null), "empty" (the empty string),
\* "garbage" (JSON.parse throws), "null" (the JSON text null), "scalar"
\* (a JSON number, string or boolean), "object".
StoredText(kind, sc, x, y, m, co) ==
    [kind |-> kind, canvasScale |-> sc, canvasX |-> x, canvasY |-> y,
     mirrored |-> m, cornerOffsets |-> co]
NonObject(kind) == StoredText(kind, JUndef, JUndef, JUndef, JUndef, JNoOffsets)

\* ----------------------------------------------------------- heap objects
\* The content of a cornerOffsets object: kind "object" or "array" (an
\* array carrying TL..BR as expando properties), and the four corners.
OffsetsObj(kind, off) == [kind |-> kind, off |-> off]
Zero == [x |-> 0, y |-> 0]
ZeroOffsets == [c \in Corners |-> Zero]
\* the two objects the variable cornerOffsets can refer to after the load
RefDefault == "DEFAULT_SETTINGS.cornerOffsets"
RefData == "data.cornerOffsets"
Refs == {RefDefault, RefData}

DEFAULT_SETTINGS ==
    [canvasScale |-> ScaleUnit, canvasX |-> 0, canvasY |-> 0, mirrored |-> FALSE,
     cornerOffsets |-> RefDefault]

\* ------------------------------------------------------------ loadSettings
\* the y check of line 59 left out
RepairCorner_XOnly(jc) ==
    IF jc.t # "object" \/ TypeOf(jc.x) # "number"
    THEN Zero
    ELSE [x |-> jc.x.n, y |-> jc.y.n]

\* The value of data.cornerOffsets after the validation of lines 51-63,
\* when it is an object of its own.
RepairCorner(jc) ==
    IF jc.t # "object" \/ TypeOf(jc.x) # "number" \/ TypeOf(jc.y) # "number"
    THEN Zero
    ELSE [x |-> jc.x.n, y |-> jc.y.n]

RepairedOffsets(jo) == OffsetsObj(jo.t, [c \in Corners |-> RepairCorner(jo.c[c])])

\* { ...DEFAULT_SETTINGS }: a shallow copy, cornerOffsets is the default's object
DefaultCopy(threw) ==
    [threw |-> threw,
     canvasScale |-> DEFAULT_SETTINGS.canvasScale, canvasX |-> DEFAULT_SETTINGS.canvasX,
     canvasY |-> DEFAULT_SETTINGS.canvasY, mirrored |-> DEFAULT_SETTINGS.mirrored,
     cornerOffsets |-> DEFAULT_SETTINGS.cornerOffsets,
     data |-> OffsetsObj("object", ZeroOffsets)]

\* the mirrored check of line 48 left out
LoadSettingsTry_NoMirrorCheck(raw) ==
    IF raw.kind \in {"absent", "empty"} THEN DefaultCopy(FALSE)
    ELSE IF raw.kind \in {"garbage", "null"} THEN DefaultCopy(TRUE)
    ELSE IF \/ TypeOf(raw.canvasScale) # "number"
            \/ TypeOf(raw.canvasX) # "number"
            \/ TypeOf(raw.canvasY) # "number"
         THEN DefaultCopy(FALSE)
    ELSE LET own == raw.cornerOffsets.t \in {"object", "array"}
         IN [threw |-> FALSE,
             canvasScale |-> raw.canvasScale.n, canvasX |-> raw.canvasX.n,
             canvasY |-> raw.canvasY.n, mirrored |-> raw.mirrored.n = 1,
             cornerOffsets |-> IF own THEN RefData ELSE DEFAULT_SETTINGS.cornerOffsets,
             data |-> IF own THEN RepairedOffsets(raw.cornerOffsets)
                      ELSE OffsetsObj("object", ZeroOffsets)]

\* The try block of loadSettings; threw says that it left by an exception.
LoadSettingsTry(raw) ==
    IF raw.kind \in {"absent", "empty"} THEN DefaultCopy(FALSE)
    ELSE IF raw.kind \in {"garbage", "null"} THEN DefaultCopy(TRUE)
    ELSE IF \/ TypeOf(raw.canvasScale) # "number"
            \/ TypeOf(raw.canvasX) # "number"
            \/ TypeOf(raw.canvasY) # "number"
            \/ TypeOf(raw.mirrored) # "boolean"
         THEN DefaultCopy(FALSE)
    ELSE LET own == raw.cornerOffsets.t \in {"object", "array"}
         IN [threw |-> FALSE,
             canvasScale |-> raw.canvasScale.n, canvasX |-> raw.canvasX.n,
             canvasY |-> raw.canvasY.n, mirrored |-> raw.mirrored.n = 1,
             cornerOffsets |-> IF own THEN RefData ELSE DEFAULT_SETTINGS.cornerOffsets,
             data |-> IF own THEN RepairedOffsets(raw.cornerOffsets)
                      ELSE OffsetsObj("object", ZeroOffsets)]

\* the catch clause of lines 65-68 left out
LoadSettings_NoCatch(raw) == LoadSettingsTry(raw)

\* loadSettings: the catch clause returns the defaults and raises nothing
LoadSettings(raw) ==
    LET r == LoadSettingsTry(raw)
    IN [r EXCEPT !.threw = FALSE]

\* ------------------------------------------------------------------ state
VARIABLES
    storage,          \* the text under SETTINGS_KEY in localStorage
    canvasScale, canvasX, canvasY, videoMirrored,
    cornerOffsets,    \* the object the variable cornerOffsets refers to
    heap,             \* content of the two cornerOffsets objects
    selectedCorner,   \* "TL", "TR", "BL", "BR" or "null"
    timers,           \* pending setTimeout callbacks: [id, left (ms)]
    saveTimer,        \* _saveTimer: a timer id, 0 for null
    sinceSpace,       \* Date.now() - _lastSpaceToggle, saturating at SPACE_DEBOUNCE_MS
    videoSize,        \* <<video.videoWidth, video.videoHeight>>, <<0, 0>> before load
    quadVerts,        \* the six vertices [x, y, u, v] of the quad
    overlay,          \* what the last frame drew on the overlay canvas
    frame,            \* gl_FragColor of the fragment at each corner of the quad
                      \* in the last frame
    texture,          \* what the video texture holds: "empty" or "video"
    rafPending,       \* requestAnimationFrame callbacks not yet run
    nKeys,            \* key events so far (bounded by MaxKeys)
    last,             \* the last handler run: what it was, whether it called
                      \* preventDefault and saveSettingsDebounced, the playback
                      \* function it called, whether its setItem succeeded,
                      \* whether an exception escaped it
    sinceSave         \* ms since the last saveSettingsDebounced call, saturating at SAVE_DELAY

vars == <<storage, canvasScale, canvasX, canvasY, videoMirrored, cornerOffsets, heap,
          selectedCorner, timers, saveTimer, sinceSpace, videoSize,
          quadVerts, overlay, frame, texture, rafPending, nKeys, last,
          sinceSave>>

\* the four corner offsets the program currently works with
Offsets == heap[cornerOffsets].off

\* -------------------------------------------------------------- persistence
\* JSON.stringify of a number: a non-finite number is written as null
StringifyNum(n) == IF IsFinite(n) THEN JNum(n) ELSE JNull

\* JSON.stringify of a cornerOffsets object: an array is written without
\* its expando properties
StringifyOffsets(o) ==
    IF o.kind = "array" THEN JOffsets("array", JNoCorners)
    ELSE JOffsets("object",
                  [c \in Corners |-> JCorner(StringifyNum(o.off[c].x), StringifyNum(o.off[c].y))])

\* canvasX and canvasY exchanged in the payload
Payload_XYExchanged ==
    StoredText("object", StringifyNum(canvasScale), StringifyNum(canvasY),
               StringifyNum(canvasX), JBool(videoMirrored),
               StringifyOffsets(heap[cornerOffsets]))

\* JSON.stringify(payload) of lines 75-82 and 111-118
Payload ==
    StoredText("object", StringifyNum(canvasScale), StringifyNum(canvasX),
               StringifyNum(canvasY), JBool(videoMirrored),
               StringifyOffsets(heap[cornerOffsets]))

\* ------------------------------------------------------------ timer, save
\* saveSettingsDebounced up to the setTimeout call: clearTimeout of the
\* pending handle, then a new timer whose id becomes the handle.
ClearTimeout(ts, id) == {t \in ts : t.id # id}

\* the clearTimeout of line 72 left out
Cancelled_NoClear(ts, handle) == ts

\* line 72: if (_saveTimer) clearTimeout(_saveTimer)
Cancelled(ts, handle) == IF handle # 0 THEN ClearTimeout(ts, handle) ELSE ts

\* the id setTimeout returns: one that no pending timer has
NewTimerId(ts) == CHOOSE i \in 1..(Cardinality(ts) + 1) : \A t \in ts : t.id # i

\* the setTimeout call of line 73 left out
SetTimeout_NotArmed(ts) == ts

\* line 73: setTimeout(..., delay)
SetTimeout(ts) == ts \cup {[id |-> NewTimerId(ts), left |-> SAVE_DELAY]}

\* the effect of a handler on the timer state; save says whether the
\* handler called saveSettingsDebounced
TimerEffect(save) ==
    IF save
    THEN /\ timers' = SetTimeout(Cancelled(timers, saveTimer))
         /\ saveTimer' = NewTimerId(Cancelled(timers, saveTimer))
         /\ sinceSave' = 0
    ELSE UNCHANGED <<timers, saveTimer, sinceSave>>

\* ---------------------------------------------------------------- keyboard
SelectKeys == {"Numpad7", "Numpad9", "Numpad1", "Numpad3", "Numpad5"}
MoveKeys == {"Numpad8", "Numpad2", "Numpad4", "Numpad6"}
ScaleKeys == {"NumpadAdd", "NumpadSubtract"}
OtherKeys == {"Space", "KeyF", "Home", "KeyM", "KeyA"}
Codes == SelectKeys \cup MoveKeys \cup ScaleKeys \cup OtherKeys

\* e.key is "Home" for the Home key, and for Numpad7 when NumLock is off
KeysOf(code) ==
    IF code = "Home" THEN {"Home"}
    ELSE IF code = "Numpad7" THEN {"7", "Home"}
    ELSE {"Other"}

\* a keydown event: code, key, shiftKey, and whether its target is an
\* INPUT, a TEXTAREA or content-editable
Events ==
    {[code |-> c, key |-> k, shiftKey |-> sh, editable |-> ed] :
        c \in Codes, k \in {"7", "Home", "Other"}, sh \in BOOLEAN, ed \in BOOLEAN}

\* keys pressed while typing in a field: any key, without Shift
TypedCodes == Codes

KeyEvents ==
    {e \in Events : /\ e.key \in KeysOf(e.code)
                    /\ e.editable => (e.code \in TypedCodes /\ ~e.shiftKey)}

\* Numpad9 and Numpad3 exchanged
CornerOfKey_Swapped(code) ==
    CASE code = "Numpad7" -> "TL"
      [] code = "Numpad9" -> "BR"
      [] code = "Numpad1" -> "BL"
      [] code = "Numpad3" -> "TR"
      [] OTHER -> "null"

\* lines 421-438: the corner the selection keys leave selected
CornerOfKey(code) ==
    CASE code = "Numpad7" -> "TL"
      [] code = "Numpad9" -> "TR"
      [] code = "Numpad1" -> "BL"
      [] code = "Numpad3" -> "BR"
      [] OTHER -> "null"

\* video.videoWidth || 1920, video.videoHeight || 1080
VideoWidth == IF videoSize[1] # 0 THEN videoSize[1] ELSE FallbackWidth
VideoHeight == IF videoSize[2] # 0 THEN videoSize[2] ELSE FallbackHeight

\* lines 445-447
PixelStep(e) == IF e.shiftKey THEN 10 ELSE 1
\* the x step taken against the video height
NormalizedStepX_ByHeight(e) == (PixelStep(e) * UnitsPerFrame) \div VideoHeight
NormalizedStepX(e) == (PixelStep(e) * UnitsPerFrame) \div VideoWidth
NormalizedStepY(e) == (PixelStep(e) * UnitsPerFrame) \div VideoHeight

\* lines 449-461: the selected corner's offset after a directional key
MoveCorner(o, e) ==
    CASE e.code = "Numpad8" -> [o EXCEPT !.y = Minus(o.y, NormalizedStepY(e))]
      [] e.code = "Numpad2" -> [o EXCEPT !.y = Plus(o.y, NormalizedStepY(e))]
      [] e.code = "Numpad4" -> [o EXCEPT !.x = Minus(o.x, NormalizedStepX(e))]
      [] e.code = "Numpad6" -> [o EXCEPT !.x = Plus(o.x, NormalizedStepX(e))]
      [] OTHER -> o

\* lines 472-482
ScaleStep(e) == IF e.shiftKey THEN 10 ELSE 5
\* the modifier ignored
MoveStep_NoShift(e) == 10
MoveStep(e) == IF e.shiftKey THEN 50 ELSE 10

\* the upper clamp of line 475 left out
ScaleUp_NoClamp(sc, e) == Plus(sc, ScaleStep(e))

ScaleUp(sc, e) ==
    LET n == Plus(sc, ScaleStep(e)) IN IF n > SCALE_MAX THEN SCALE_MAX ELSE n

ScaleDown(sc, e) ==
    LET n == Minus(sc, ScaleStep(e)) IN IF n < SCALE_MIN THEN SCALE_MIN ELSE n

\* lines 471-500: scale, x and y after a canvas-window key in no-selection mode
CanvasControl(e) ==
    CASE e.code = "NumpadAdd" ->
            [scale |-> ScaleUp(canvasScale, e), x |-> canvasX, y |-> canvasY]
      [] e.code = "NumpadSubtract" ->
            [scale |-> ScaleDown(canvasScale, e), x |-> canvasX, y |-> canvasY]
      [] e.code = "Numpad8" ->
            [scale |-> canvasScale, x |-> canvasX, y |-> Minus(canvasY, MoveStep(e))]
      [] e.code = "Numpad2" ->
            [scale |-> canvasScale, x |-> canvasX, y |-> Plus(canvasY, MoveStep(e))]
      [] e.code = "Numpad4" ->
            [scale |-> canvasScale, x |-> Minus(canvasX, MoveStep(e)), y |-> canvasY]
      [] e.code = "Numpad6" ->
            [scale |-> canvasScale, x |-> Plus(canvasX, MoveStep(e)), y |-> canvasY]
      [] OTHER -> [scale |-> canvasScale, x |-> canvasX, y |-> canvasY]

\* the record of a handler run that did nothing observable
NoStep(op) ==
    [op |-> op, prevented |-> FALSE, save |-> FALSE, cmd |-> "none", ok |-> TRUE,
     raised |-> FALSE]

\* What the keydown handler of lines 414-526 does with event e in the
\* current state: the new values, whether preventDefault and
\* saveSettingsDebounced were called, and the playback command issued.
Outcome(sel, off, cv, mir, prevented, save, cmd) ==
    [selectedCorner |-> sel, off |-> off, scale |-> cv.scale, x |-> cv.x, y |-> cv.y,
     mirrored |-> mir, prevented |-> prevented, save |-> save, cmd |-> cmd]

Canvas == [scale |-> canvasScale, x |-> canvasX, y |-> canvasY]

\* KeyM sets the flag instead of flipping it
OtherControls_MirrorOn(e, sel) ==
    IF e.code = "Space" THEN
        IF sinceSpace < SPACE_DEBOUNCE_MS
        THEN Outcome(sel, Offsets, Canvas, videoMirrored, FALSE, FALSE, "none")
        ELSE Outcome(sel, Offsets, Canvas, videoMirrored, TRUE, FALSE, "togglePlayPause")
    ELSE IF e.code = "KeyF" THEN
        Outcome(sel, Offsets, Canvas, videoMirrored, TRUE, FALSE, "toggleFullscreen")
    ELSE IF e.key = "Home" THEN
        Outcome(sel, Offsets, Canvas, videoMirrored, TRUE, FALSE, "goToHeadAndPlay")
    ELSE IF e.code = "KeyM" THEN
        Outcome(sel, Offsets, Canvas, TRUE, TRUE, TRUE, "none")
    ELSE Outcome(sel, Offsets, Canvas, videoMirrored, FALSE, FALSE, "none")

\* the saveSettingsDebounced call of line 524 left out
OtherControls_MirrorNoSave(e, sel) ==
    IF e.code = "Space" THEN
        IF sinceSpace < SPACE_DEBOUNCE_MS
        THEN Outcome(sel, Offsets, Canvas, videoMirrored, FALSE, FALSE, "none")
        ELSE Outcome(sel, Offsets, Canvas, videoMirrored, TRUE, FALSE, "togglePlayPause")
    ELSE IF e.code = "KeyF" THEN
        Outcome(sel, Offsets, Canvas, videoMirrored, TRUE, FALSE, "toggleFullscreen")
    ELSE IF e.key = "Home" THEN
        Outcome(sel, Offsets, Canvas, videoMirrored, TRUE, FALSE, "goToHeadAndPlay")
    ELSE IF e.code = "KeyM" THEN
        Outcome(sel, Offsets, Canvas, ~videoMirrored, TRUE, FALSE, "none")
    ELSE Outcome(sel, Offsets, Canvas, videoMirrored, FALSE, FALSE, "none")

\* the fullscreen key scheduling a save as the mirror key does
OtherControls_FullscreenSaves(e, sel) ==
    IF e.code = "Space" THEN
        IF sinceSpace < SPACE_DEBOUNCE_MS
        THEN Outcome(sel, Offsets, Canvas, videoMirrored, FALSE, FALSE, "none")
        ELSE Outcome(sel, Offsets, Canvas, videoMirrored, TRUE, FALSE, "togglePlayPause")
    ELSE IF e.code = "KeyF" THEN
        Outcome(sel, Offsets, Canvas, videoMirrored, TRUE, TRUE, "toggleFullscreen")
    ELSE IF e.key = "Home" THEN
        Outcome(sel, Offsets, Canvas, videoMirrored, TRUE, FALSE, "goToHeadAndPlay")
    ELSE IF e.code = "KeyM" THEN
        Outcome(sel, Offsets, Canvas, ~videoMirrored, TRUE, TRUE, "none")
    ELSE Outcome(sel, Offsets, Canvas, videoMirrored, FALSE, FALSE, "none")

\* the rate limit of lines 510-511 left out
OtherControls_NoRateLimit(e, sel) ==
    IF e.code = "Space" THEN
        Outcome(sel, Offsets, Canvas, videoMirrored, TRUE, FALSE, "togglePlayPause")
    ELSE IF e.code = "KeyF" THEN
        Outcome(sel, Offsets, Canvas, videoMirrored, TRUE, FALSE, "toggleFullscreen")
    ELSE IF e.key = "Home" THEN
        Outcome(sel, Offsets, Canvas, videoMirrored, TRUE, FALSE, "goToHeadAndPlay")
    ELSE IF e.code = "KeyM" THEN
        Outcome(sel, Offsets, Canvas, ~videoMirrored, TRUE, TRUE, "none")
    ELSE Outcome(sel, Offsets, Canvas, videoMirrored, FALSE, FALSE, "none")

\* lines 508-525: the keys handled when no corner or canvas key matched
OtherControls(e, sel) ==
    IF e.code = "Space" THEN
        IF sinceSpace < SPACE_DEBOUNCE_MS
        THEN Outcome(sel, Offsets, Canvas, videoMirrored, FALSE, FALSE, "none")
        ELSE Outcome(sel, Offsets, Canvas, videoMirrored, TRUE, FALSE, "togglePlayPause")
    ELSE IF e.code = "KeyF" THEN
        Outcome(sel, Offsets, Canvas, videoMirrored, TRUE, FALSE, "toggleFullscreen")
    ELSE IF e.key = "Home" THEN
        Outcome(sel, Offsets, Canvas, videoMirrored, TRUE, FALSE, "goToHeadAndPlay")
    ELSE IF e.code = "KeyM" THEN
        Outcome(sel, Offsets, Canvas, ~videoMirrored, TRUE, TRUE, "none")
    ELSE Outcome(sel, Offsets, Canvas, videoMirrored, FALSE, FALSE, "none")

\* the guard of lines 416-417 left out
HandleKey_NoGuard(e) ==
    LET selected == e.code \in SelectKeys
        sel == IF selected THEN CornerOfKey(e.code) ELSE selectedCorner
        moved == sel # "null" /\ e.code \in MoveKeys
        off == IF moved THEN [Offsets EXCEPT ![sel] = MoveCorner(@, e)] ELSE Offsets
        handledCorner == selected \/ moved
        canvasHit == ~handledCorner /\ sel = "null" /\ e.code \in (ScaleKeys \cup MoveKeys)
    IN IF sel # "null" /\ handledCorner
       THEN Outcome(sel, off, Canvas, videoMirrored, TRUE, TRUE, "none")
       ELSE IF canvasHit
       THEN Outcome(sel, off, CanvasControl(e), videoMirrored, TRUE, TRUE, "none")
       ELSE IF handledCorner
       THEN Outcome(sel, off, Canvas, videoMirrored, TRUE, TRUE, "none")
       ELSE OtherControls(e, sel)

\* the mode test of line 471 left out: canvas keys act in corner mode too
HandleKey_NoModeTest(e) ==
    IF e.editable
    THEN Outcome(selectedCorner, Offsets, Canvas, videoMirrored, FALSE, FALSE, "none")
    ELSE
    LET selected == e.code \in SelectKeys
        sel == IF selected THEN CornerOfKey(e.code) ELSE selectedCorner
        moved == sel # "null" /\ e.code \in MoveKeys
        off == IF moved THEN [Offsets EXCEPT ![sel] = MoveCorner(@, e)] ELSE Offsets
        handledCorner == selected \/ moved
        canvasHit == ~handledCorner /\ e.code \in (ScaleKeys \cup MoveKeys)
    IN IF sel # "null" /\ handledCorner
       THEN Outcome(sel, off, Canvas, videoMirrored, TRUE, TRUE, "none")
       ELSE IF canvasHit
       THEN Outcome(sel, off, CanvasControl(e), videoMirrored, TRUE, TRUE, "none")
       ELSE IF handledCorner
       THEN Outcome(sel, off, Canvas, videoMirrored, TRUE, TRUE, "none")
       ELSE OtherControls(e, sel)

\* a selection key not counted as handled: no preventDefault, no save
HandleKey_SelectNotHandled(e) ==
    IF e.editable
    THEN Outcome(selectedCorner, Offsets, Canvas, videoMirrored, FALSE, FALSE, "none")
    ELSE
    LET selected == e.code \in SelectKeys
        sel == IF selected THEN CornerOfKey(e.code) ELSE selectedCorner
        moved == sel # "null" /\ e.code \in MoveKeys
        off == IF moved THEN [Offsets EXCEPT ![sel] = MoveCorner(@, e)] ELSE Offsets
        handledCorner == moved
        canvasHit == ~handledCorner /\ sel = "null" /\ e.code \in (ScaleKeys \cup MoveKeys)
    IN IF sel # "null" /\ handledCorner
       THEN Outcome(sel, off, Canvas, videoMirrored, TRUE, TRUE, "none")
       ELSE IF canvasHit
       THEN Outcome(sel, off, CanvasControl(e), videoMirrored, TRUE, TRUE, "none")
       ELSE IF handledCorner
       THEN Outcome(sel, off, Canvas, videoMirrored, TRUE, TRUE, "none")
       ELSE OtherControls(e, sel)

\* lines 414-526: the keydown handler
HandleKey(e) ==
    IF e.editable
    THEN Outcome(selectedCorner, Offsets, Canvas, videoMirrored, FALSE, FALSE, "none")
    ELSE
    LET selected == e.code \in SelectKeys
        sel == IF selected THEN CornerOfKey(e.code) ELSE selectedCorner
        moved == sel # "null" /\ e.code \in MoveKeys
        off == IF moved THEN [Offsets EXCEPT ![sel] = MoveCorner(@, e)] ELSE Offsets
        handledCorner == selected \/ moved
        canvasHit == ~handledCorner /\ sel = "null" /\ e.code \in (ScaleKeys \cup MoveKeys)
    IN IF sel # "null" /\ handledCorner
       THEN Outcome(sel, off, Canvas, videoMirrored, TRUE, TRUE, "none")
       ELSE IF canvasHit
       THEN Outcome(sel, off, CanvasControl(e), videoMirrored, TRUE, TRUE, "none")
       ELSE IF handledCorner
       THEN Outcome(sel, off, Canvas, videoMirrored, TRUE, TRUE, "none")
       ELSE OtherControls(e, sel)

\* lines 510-512: _lastSpaceToggle = now when the toggle is accepted
SpaceEffect(cmd) == sinceSpace' = (IF cmd = "togglePlayPause" THEN 0 ELSE sinceSpace)

KeyDown(e) ==
    /\ nKeys < MaxKeys
    /\ nKeys' = nKeys + 1
    /\ LET r == HandleKey(e)
       IN /\ selectedCorner' = r.selectedCorner
          /\ heap' = [heap EXCEPT ![cornerOffsets].off = r.off]
          /\ canvasScale' = r.scale
          /\ canvasX' = r.x
          /\ canvasY' = r.y
          /\ videoMirrored' = r.mirrored
          /\ TimerEffect(r.save)
          /\ SpaceEffect(r.cmd)
          /\ last' = [NoStep("keydown") EXCEPT !.prevented = r.prevented,
                                                !.save = r.save, !.cmd = r.cmd]
    /\ UNCHANGED <<storage, cornerOffsets, videoSize, quadVerts, overlay, frame, texture, rafPending>>

\* ---------------------------------------------------------------- geometry
\* default texture coordinate of each corner, in units
DefaultUV(c) ==
    [x |-> IF c \in {"TR", "BR"} THEN UnitsPerFrame ELSE 0,
     y |-> IF c \in {"BL", "BR"} THEN UnitsPerFrame ELSE 0]

\* the last two vertices of the second triangle exchanged
VertexCorner_Exchanged == <<"BL", "BR", "TL", "TL", "TR", "BR">>

\* lines 192-200: the corner each vertex sits on, and its clip-space position
VertexCorner == <<"BL", "BR", "TL", "TL", "BR", "TR">>
ClipPos(c) ==
    [x |-> IF c \in {"TR", "BR"} THEN 1 ELSE -1,
     y |-> IF c \in {"TL", "TR"} THEN 1 ELSE -1]

InitialQuad ==
    [i \in 1..6 |-> [x |-> ClipPos(VertexCorner[i]).x, y |-> ClipPos(VertexCorner[i]).y,
                    u |-> DefaultUV(VertexCorner[i]).x, v |-> DefaultUV(VertexCorner[i]).y]]

\* the offsets added instead of subtracted
CornerUV_Added(off, c) ==
    [x |-> Plus(off[c].x, DefaultUV(c).x), y |-> Plus(off[c].y, DefaultUV(c).y)]

\* lines 231-234
CornerUV(off, c) ==
    [x |-> SubFrom(DefaultUV(c).x, off[c].x), y |-> SubFrom(DefaultUV(c).y, off[c].y)]

\* lines 236-251: updateQuadWithCorners writes u and v of all six vertices
UpdateQuadWithCorners(q, off) ==
    [i \in 1..6 |-> [q[i] EXCEPT !.u = CornerUV(off, VertexCorner[i]).x,
                                !.v = CornerUV(off, VertexCorner[i]).y]]

\* ------------------------------------------------------- fragment shader
\* line 176: vec4(0.0, 0.0, 0.0, 1.0)
Black == [kind |-> "black"]
\* line 178: the texel of the video frame at uv
Texture2D(uv) == [kind |-> "texel", at |-> uv]
\* line 183: the canvas before the first frame, no fragment of the quad drawn
NoFrame == [c \in Corners |-> [kind |-> "clear"]]

\* line 348: the uniform u_mirror, 1.0 or 0.0
MirrorUniform(mirrored) == IF mirrored THEN UnitsPerFrame ELSE 0

\* coordinates outside the frame clamped to the edge texel instead of masked
FsMain_ClampToEdge(v_uv, u_mirror) ==
    LET Clamp(a) == IF a < 0 THEN 0 ELSE IF a > UnitsPerFrame THEN UnitsPerFrame ELSE a
        uv == [x |-> IF 2 * u_mirror > UnitsPerFrame
                     THEN SubFrom(UnitsPerFrame, v_uv.x) ELSE v_uv.x,
               y |-> v_uv.y]
    IN Texture2D([x |-> Clamp(uv.x), y |-> Clamp(uv.y)])

\* lines 168-180: main() of the fragment shader for the varying v_uv
FsMain(v_uv, u_mirror) ==
    LET uv == [x |-> IF 2 * u_mirror > UnitsPerFrame
                     THEN SubFrom(UnitsPerFrame, v_uv.x) ELSE v_uv.x,
               y |-> v_uv.y]
    IN IF uv.x < 0 \/ uv.x > UnitsPerFrame \/ uv.y < 0 \/ uv.y > UnitsPerFrame
       THEN Black
       ELSE Texture2D(uv)

\* the vertex of the quad q that sits on corner c
VertexAt(q, c) == q[CHOOSE i \in 1..6 : VertexCorner[i] = c]

\* line 352: drawArrays runs the shader for every fragment of the quad; at
\* a corner the varying is the texture coordinate of that vertex
DrawArrays(q, u_mirror) ==
    [c \in Corners |-> FsMain([x |-> VertexAt(q, c).u, y |-> VertexAt(q, c).v], u_mirror)]

\* backing-store size of the overlay canvas, floor(clientWidth * dpr)
OverlayWidth == 1280
OverlayHeight == 720
Times(a, w) == IF IsFinite(a) THEN a * w ELSE a
NoIndicator == [corner |-> "null", x |-> 0, y |-> 0]

\* the offsets subtracted, as for the texture coordinates
DrawCornerIndicators_Subtracted(sel, off) ==
    IF sel = "null" THEN NoIndicator
    ELSE [corner |-> sel,
          x |-> Times(SubFrom(DefaultUV(sel).x, off[sel].x), OverlayWidth),
          y |-> Times(SubFrom(DefaultUV(sel).y, off[sel].y), OverlayHeight)]

\* lines 282-338: the circle drawn, if any (position in 1/17280 pixel)
DrawCornerIndicators(sel, off) ==
    IF sel = "null" THEN NoIndicator
    ELSE [corner |-> sel,
          x |-> Times(Plus(off[sel].x, DefaultUV(sel).x), OverlayWidth),
          y |-> Times(Plus(off[sel].y, DefaultUV(sel).y), OverlayHeight)]

\* ------------------------------------------------------------------ startup
\* lines 7-37 and 97-106: module state after the script has run with raw
\* in the storage slot
Hydrated(raw) ==
    LET s == LoadSettings(raw)
    IN [canvasScale |-> s.canvasScale, canvasX |-> s.canvasX, canvasY |-> s.canvasY,
        videoMirrored |-> s.mirrored, cornerOffsets |-> s.cornerOffsets,
        heap |-> [r \in Refs |-> IF r = RefData THEN s.data
                                 ELSE OffsetsObj("object", ZeroOffsets)],
        raised |-> s.threw]

\* storage contents the page may find at its first start
Pt(x, y) == JCorner(JNum(x), JNum(y))
SomeCorners ==
    [c \in Corners |-> CASE c = "TL" -> Pt(9, -16)
                         [] c = "TR" -> Pt(0, 32)
                         [] c = "BL" -> Pt(-18, 0)
                         [] OTHER -> Pt(27, 48)]
Rec(sc, x, y, m, co) == StoredText("object", sc, x, y, m, co)

\* no entry; a complete record near the upper scale limit; a record
\* without cornerOffsets near the lower scale limit
InitialTexts ==
    { NonObject("absent"),
      Rec(JNum(195), JNum(10), JNum(-50), JBool(TRUE), JOffsets("object", SomeCorners)),
      Rec(JNum(25), JNum(10), JNum(0), JBool(TRUE), JNoOffsets) }

\* lines 7-37, 97-106, 192-200 and 411: the module state when the script
\* has run with raw in the storage slot
Fresh(raw) ==
    LET h == Hydrated(raw)
    IN [canvasScale |-> h.canvasScale, canvasX |-> h.canvasX, canvasY |-> h.canvasY,
        videoMirrored |-> h.videoMirrored, cornerOffsets |-> h.cornerOffsets,
        heap |-> h.heap, selectedCorner |-> "null", timers |-> {}, saveTimer |-> 0,
        sinceSpace |-> SPACE_DEBOUNCE_MS, videoSize |-> <<0, 0>>,
        quadVerts |-> InitialQuad,
        overlay |-> NoIndicator, frame |-> NoFrame, texture |-> "empty",
        rafPending |-> 0]

StartWith(texts) ==
    /\ storage \in texts
    /\ canvasScale = Fresh(storage).canvasScale
    /\ canvasX = Fresh(storage).canvasX
    /\ canvasY = Fresh(storage).canvasY
    /\ videoMirrored = Fresh(storage).videoMirrored
    /\ cornerOffsets = Fresh(storage).cornerOffsets
    /\ heap = Fresh(storage).heap
    /\ selectedCorner = Fresh(storage).selectedCorner
    /\ timers = Fresh(storage).timers
    /\ saveTimer = Fresh(storage).saveTimer
    /\ sinceSpace = Fresh(storage).sinceSpace
    /\ videoSize = Fresh(storage).videoSize
    /\ quadVerts = Fresh(storage).quadVerts
    /\ overlay = Fresh(storage).overlay
    /\ frame = Fresh(storage).frame
    /\ texture = Fresh(storage).texture
    /\ rafPending = Fresh(storage).rafPending
    /\ nKeys = 0
    /\ last = [NoStep("load") EXCEPT !.raised = Hydrated(storage).raised]
    /\ sinceSave = SAVE_DELAY

Init == StartWith(InitialTexts)

\* ------------------------------------------------------------------- steps
\* time passes
Tick ==
    /\ timers' = {[t EXCEPT !.left = Max2(0, t.left - TickMs)] : t \in timers}
    /\ sinceSpace' = Min2(SPACE_DEBOUNCE_MS, sinceSpace + TickMs)
    /\ sinceSave' = Min2(SAVE_DELAY, sinceSave + TickMs)
    /\ UNCHANGED <<storage, canvasScale, canvasX, canvasY, videoMirrored, cornerOffsets,
                   heap, selectedCorner, saveTimer, videoSize,
                   quadVerts, overlay, frame, texture, rafPending, nKeys, last>>

\* localStorage.setItem(SETTINGS_KEY, JSON.stringify(payload)); ok = FALSE
\* when setItem throws
SetItem(ok) == IF ok THEN Payload ELSE storage

\* _saveTimer = null moved into the try block, after setItem
TimerFire_HandleKept(t, ok) ==
    /\ t \in timers
    /\ t.left = 0
    /\ storage' = SetItem(ok)
    /\ saveTimer' = (IF ok THEN 0 ELSE saveTimer)
    /\ timers' = timers \ {t}
    /\ last' = [NoStep("timer") EXCEPT !.ok = ok]
    /\ UNCHANGED <<canvasScale, canvasX, canvasY, videoMirrored, cornerOffsets, heap,
                   selectedCorner, sinceSpace, videoSize,
                   quadVerts, overlay, frame, texture, rafPending, nKeys, sinceSave>>

\* the reset of the handle on line 86 left out
TimerFire_NoReset(t, ok) ==
    /\ t \in timers
    /\ t.left = 0
    /\ storage' = SetItem(ok)
    /\ timers' = timers \ {t}
    /\ last' = [NoStep("timer") EXCEPT !.ok = ok]
    /\ UNCHANGED <<canvasScale, canvasX, canvasY, videoMirrored, cornerOffsets, heap,
                   selectedCorner, saveTimer, sinceSpace, videoSize,
                   quadVerts, overlay, frame, texture, rafPending, nKeys, sinceSave>>

\* lines 73-87: the timeout callback of saveSettingsDebounced
TimerFire(t, ok) ==
    /\ t \in timers
    /\ t.left = 0
    /\ storage' = SetItem(ok)
    /\ saveTimer' = 0
    /\ timers' = timers \ {t}
    /\ last' = [NoStep("timer") EXCEPT !.ok = ok]
    /\ UNCHANGED <<canvasScale, canvasX, canvasY, videoMirrored, cornerOffsets, heap,
                   selectedCorner, sinceSpace, videoSize,
                   quadVerts, overlay, frame, texture, rafPending, nKeys, sinceSave>>

\* the flush cancelling the pending debounce timer
BeforeUnload_ClearsTimer(ok) ==
    /\ storage' = SetItem(ok)
    /\ timers' = Cancelled(timers, saveTimer)
    /\ saveTimer' = 0
    /\ last' = [NoStep("beforeunload") EXCEPT !.ok = ok]
    /\ UNCHANGED <<canvasScale, canvasX, canvasY, videoMirrored, cornerOffsets, heap,
                   selectedCorner, sinceSpace, videoSize,
                   quadVerts, overlay, frame, texture, rafPending, nKeys, sinceSave>>

\* lines 109-120: the beforeunload handler
BeforeUnload(ok) ==
    /\ storage' = SetItem(ok)
    /\ last' = [NoStep("beforeunload") EXCEPT !.ok = ok]
    /\ UNCHANGED <<canvasScale, canvasX, canvasY, videoMirrored, cornerOffsets, heap,
                   selectedCorner, timers, saveTimer, sinceSpace, videoSize,
                   quadVerts, overlay, frame, texture, rafPending, nKeys, sinceSave>>

\* the page is torn down and the script runs again on the next visit
PageLoad ==
    /\ canvasScale' = Fresh(storage).canvasScale
    /\ canvasX' = Fresh(storage).canvasX
    /\ canvasY' = Fresh(storage).canvasY
    /\ videoMirrored' = Fresh(storage).videoMirrored
    /\ cornerOffsets' = Fresh(storage).cornerOffsets
    /\ heap' = Fresh(storage).heap
    /\ selectedCorner' = Fresh(storage).selectedCorner
    /\ timers' = Fresh(storage).timers
    /\ saveTimer' = Fresh(storage).saveTimer
    /\ sinceSpace' = Fresh(storage).sinceSpace
    /\ videoSize' = Fresh(storage).videoSize
    /\ quadVerts' = Fresh(storage).quadVerts
    /\ overlay' = Fresh(storage).overlay
    /\ frame' = Fresh(storage).frame
    /\ texture' = Fresh(storage).texture
    /\ rafPending' = Fresh(storage).rafPending
    /\ last' = [NoStep("load") EXCEPT !.raised = Hydrated(storage).raised]
    /\ sinceSave' = SAVE_DELAY
    /\ UNCHANGED <<storage, nKeys>>

\* lines 359-374: the video has data; showStartFrame starts the render loop
VideoLoaded(size) ==
    /\ videoSize = <<0, 0>>
    /\ videoSize' = size
    /\ rafPending' = rafPending + 1
    /\ UNCHANGED <<storage, canvasScale, canvasX, canvasY, videoMirrored, cornerOffsets,
                   heap, selectedCorner, timers, saveTimer, sinceSpace,
                   quadVerts, overlay, frame, texture, nKeys, last, sinceSave>>

\* lines 272-279: texImage2D uploads the current video frame; when it
\* throws the texture keeps what it held
UpdateTextureFromVideo(tex, uploaded) == IF uploaded THEN "video" ELSE tex

\* the try/catch of lines 273-278 left out: a failed upload ends the frame
RenderFrame_UploadThrows(uploaded) ==
    /\ rafPending > 0
    /\ texture' = UpdateTextureFromVideo(texture, uploaded)
    /\ quadVerts' = (IF uploaded THEN UpdateQuadWithCorners(quadVerts, Offsets) ELSE quadVerts)
    /\ frame' = (IF uploaded THEN DrawArrays(quadVerts', MirrorUniform(videoMirrored)) ELSE frame)
    /\ overlay' = (IF uploaded THEN DrawCornerIndicators(selectedCorner, Offsets) ELSE overlay)
    /\ rafPending' = (IF uploaded THEN (rafPending - 1) + 1 ELSE rafPending - 1)
    /\ UNCHANGED <<storage, canvasScale, canvasX, canvasY, videoMirrored, cornerOffsets,
                   heap, selectedCorner, timers, saveTimer, sinceSpace,
                   videoSize, nKeys, last, sinceSave>>

\* lines 340-358: one frame; uploaded says whether texImage2D succeeded
RenderFrame(uploaded) ==
    /\ rafPending > 0
    /\ texture' = UpdateTextureFromVideo(texture, uploaded)
    /\ quadVerts' = UpdateQuadWithCorners(quadVerts, Offsets)
    /\ frame' = DrawArrays(quadVerts', MirrorUniform(videoMirrored))
    /\ overlay' = DrawCornerIndicators(selectedCorner, Offsets)
    /\ rafPending' = (rafPending - 1) + 1
    /\ UNCHANGED <<storage, canvasScale, canvasX, canvasY, videoMirrored, cornerOffsets,
                   heap, selectedCorner, timers, saveTimer, sinceSpace,
                   videoSize, nKeys, last, sinceSave>>

\* the frame callback run by the browser
Render == \E uploaded \in BOOLEAN : RenderFrame(uploaded)

\* One visit of the page at the keyboard: every key, the clock and the
\* debounce timer.  The video and the render loop are the subject of
\* GeometrySpec, teardown and the next visit that of StoreSpec.
Next ==
    \/ \E e \in KeyEvents : KeyDown(e)
    \/ Tick
    \/ \E t \in timers, ok \in BOOLEAN : TimerFire(t, ok)

Spec == Init /\ [][Next]_vars

\* One visit of the page in which every storage write succeeds, time
\* keeps passing while it matters and a due timer is run by the event loop.
LiveNext ==
    \/ \E e \in KeyEvents : KeyDown(e)
    \/ Tick
    \/ \E t \in timers : TimerFire(t, TRUE)

LiveSpec ==
    /\ Init /\ [][LiveNext]_vars
    /\ WF_vars(Tick)
    /\ WF_vars(\E t \in timers : TimerFire(t, TRUE))

\* the keys that select and move corners
GeometryKeys ==
    {e \in KeyEvents : e.code \in SelectKeys \cup MoveKeys /\ ~e.editable}

\* One visit of the page on screen: the corner keys, the video becoming
\* ready and the render loop.
GeometryNext ==
    \/ \E e \in GeometryKeys : KeyDown(e)
    \/ \E size \in VideoSizes : VideoLoaded(size)
    \/ Render

GeometrySpec == Init /\ [][GeometryNext]_vars

TypeOK ==
    /\ selectedCorner \in Corners \cup {"null"}
    /\ cornerOffsets \in Refs
    /\ videoMirrored \in BOOLEAN
    /\ nKeys \in 0..MaxKeys

\* ------------------------------------------- the settings store over visits
\* Stored texts of every shape loadSettings distinguishes: no entry, empty,
\* unparseable, null, a scalar; records whose corners are, independently,
\* present, missing or non-numeric; records with one top-level field of
\* the wrong type; records whose cornerOffsets is no object of its own;
\* records with out-of-range or overflowing numbers.
CornerShapes ==
    [Corners -> {"present", "missing", "nonnumeric"}]

ShapedCorners(sh) ==
    [c \in Corners |-> CASE sh[c] = "present" -> SomeCorners[c]
                         [] sh[c] = "missing" -> JNoCorner
                         [] OTHER -> JCorner(JStr, JNum(5))]

ValidTops ==
    { [canvasScale |-> JNum(100), canvasX |-> JNum(0), canvasY |-> JNum(0), mirrored |-> JBool(FALSE)],
      [canvasScale |-> JNum(20), canvasX |-> JNum(-10), canvasY |-> JNum(50), mirrored |-> JBool(TRUE)] }

OddTops ==
    { [canvasScale |-> JStr, canvasX |-> JNum(10), canvasY |-> JNum(50), mirrored |-> JBool(TRUE)],
      [canvasScale |-> JNull, canvasX |-> JNum(10), canvasY |-> JNum(50), mirrored |-> JBool(TRUE)],
      [canvasScale |-> JNum(150), canvasX |-> JUndef, canvasY |-> JNum(50), mirrored |-> JBool(TRUE)],
      [canvasScale |-> JNum(150), canvasX |-> JNum(10), canvasY |-> JBool(TRUE), mirrored |-> JBool(TRUE)],
      [canvasScale |-> JNum(150), canvasX |-> JNum(10), canvasY |-> JNum(50), mirrored |-> JNum(1)],
      [canvasScale |-> JNum(150), canvasX |-> JNum(10), canvasY |-> JNum(50), mirrored |-> JUndef],
      [canvasScale |-> JNum(500), canvasX |-> JNum(10), canvasY |-> JNum(50), mirrored |-> JBool(TRUE)],
      [canvasScale |-> JNum(5), canvasX |-> JNum(10), canvasY |-> JNum(50), mirrored |-> JBool(FALSE)],
      [canvasScale |-> JNum(PosInf), canvasX |-> JNum(10), canvasY |-> JNum(50), mirrored |-> JBool(TRUE)],
      [canvasScale |-> JNum(150), canvasX |-> JNum(PosInf), canvasY |-> JNum(50), mirrored |-> JBool(TRUE)],
      [canvasScale |-> JNum(150), canvasX |-> JNum(10), canvasY |-> JNum(NegInf), mirrored |-> JBool(TRUE)] }

OddOffsets ==
    { JNoOffsets, JOffsets("null", JNoCorners), JOffsets("scalar", JNoCorners),
      JOffsets("array", JNoCorners),
      JOffsets("object", [SomeCorners EXCEPT !["TR"] = JCorner(JNum(PosInf), JNum(0))]),
      JOffsets("object", [SomeCorners EXCEPT !["BL"] = JCorner(JNum(9), JNull)]) }

WithTop(top, co) == Rec(top.canvasScale, top.canvasX, top.canvasY, top.mirrored, co)

StoreTexts ==
    {NonObject(k) : k \in {"absent", "empty", "garbage", "null", "scalar"}}
    \cup {WithTop(top, JOffsets("object", ShapedCorners(sh))) : top \in ValidTops, sh \in CornerShapes}
    \cup {WithTop(top, JOffsets("object", SomeCorners)) : top \in OddTops}
    \cup {WithTop(top, co) : top \in ValidTops, co \in OddOffsets}

StoreInit == StartWith(StoreTexts)

\* the keys the store needs: mutations that schedule a save (mirror,
\* select the top-left corner, move it right) and a key that does not
\* (fullscreen)
StoreKeys ==
    {e \in KeyEvents : /\ e.code \in {"KeyM", "Numpad7", "Numpad6", "KeyF"}
                       /\ e.key # "Home" /\ ~e.shiftKey /\ ~e.editable}

\* Visits of the page in sequence: keys, the clock, the debounce timer, the
\* teardown flush and the next start of the script.
StoreNext ==
    \/ \E e \in StoreKeys : KeyDown(e)
    \/ Tick
    \/ \E t \in timers, ok \in BOOLEAN : TimerFire(t, ok)
    \/ \E ok \in BOOLEAN : BeforeUnload(ok)
    \/ PageLoad

StoreSpec == StoreInit /\ [][StoreNext]_vars

\* --------------------------------------------------- the frame on screen
\* Stored offsets that put the corners of the quad inside the video frame,
\* on its edges, just outside and a whole frame outside, on both axes,
\* with and without mirroring.
ShaderShiftsX == {-17289, -17280, -18, 0, 9, 17280, 17289}
ShaderShiftsY == {-16, 0, 32}
ShaderTexts ==
    {WithTop(top, JOffsets("object", [c \in Corners |-> Pt(dx, dy)])) :
        top \in ValidTops, dx \in ShaderShiftsX, dy \in ShaderShiftsY}

ShaderInit == StartWith(ShaderTexts)

\* the mirror key
ShaderKeys ==
    {e \in KeyEvents : e.code = "KeyM" /\ ~e.shiftKey /\ ~e.editable}

\* One visit of the page as drawn: the mirror key, the video becoming
\* ready and the render loop.
ShaderNext ==
    \/ \E e \in ShaderKeys : KeyDown(e)
    \/ \E size \in VideoSizes : VideoLoaded(size)
    \/ Render

ShaderSpec == ShaderInit /\ [][ShaderNext]_vars

\* ================================================================ claims
PlainEvents == {e \in KeyEvents : ~e.editable}
SameCanvas == canvasScale' = canvasScale /\ canvasX' = canvasX /\ canvasY' = canvasY

\* ------------------------------------------------------------------- C1
C1_Corner(x, y) ==
    CASE x = -1 /\ y = 1 -> "TL"
      [] x = 1 /\ y = 1 -> "TR"
      [] x = -1 /\ y = -1 -> "BL"
      [] OTHER -> "BR"

C1_Default(c) ==
    CASE c = "TL" -> [x |-> 0, y |-> 0]
      [] c = "TR" -> [x |-> 17280, y |-> 0]
      [] c = "BL" -> [x |-> 0, y |-> 17280]
      [] OTHER -> [x |-> 17280, y |-> 17280]

\* C1: after updateQuadWithCorners has run in a frame, every vertex of the
\* quad carries the texture coordinate default(c) - offset(c) of the
\* corner c it sits on, unclamped, with defaults TL=(0,0), TR=(1,0),
\* BL=(0,1), BR=(1,1); with all offsets zero these are the defaults.
C1_QuadIsDefaultMinusOffset ==
    [][Render =>
        \A i \in 1..6 :
            LET c == C1_Corner(quadVerts'[i].x, quadVerts'[i].y)
            IN /\ quadVerts'[i].u = C1_Default(c).x - Offsets[c].x
               /\ quadVerts'[i].v = C1_Default(c).y - Offsets[c].y]_vars

\* a frame has put a coordinate outside [0, 1]
C1_Witness ==
    \E i \in 1..6 : quadVerts[i].u < 0 \/ quadVerts[i].v > 17280

\* ------------------------------------------------------------------- C2
C2_Dim(e) ==
    IF e.code \in {"Numpad4", "Numpad6"}
    THEN (IF videoSize[1] = 0 THEN 1920 ELSE videoSize[1])
    ELSE (IF videoSize[2] = 0 THEN 1080 ELSE videoSize[2])

C2_Step(e) == ((IF e.shiftKey THEN 10 ELSE 1) * 17280) \div C2_Dim(e)

C2_Moved(o, e) ==
    CASE e.code = "Numpad4" -> [x |-> o.x - C2_Step(e), y |-> o.y]
      [] e.code = "Numpad6" -> [x |-> o.x + C2_Step(e), y |-> o.y]
      [] e.code = "Numpad8" -> [x |-> o.x, y |-> o.y - C2_Step(e)]
      [] OTHER -> [x |-> o.x, y |-> o.y + C2_Step(e)]

\* C2: with a corner c selected, a directional key moves one component of
\* offsets[c] by exactly pixelStep / video dimension (1 pixel, 10 with
\* Shift; x against the width, y against the height; 4 and 8 decrease, 6
\* and 2 increase), without clamping, and leaves the other component, the
\* other corners, scale, x, y, mirrored and the mode as they were.
C2_CornerMove ==
    [][\A e \in PlainEvents :
        (e.code \in {"Numpad8", "Numpad2", "Numpad4", "Numpad6"}
            /\ selectedCorner # "null" /\ KeyDown(e))
        => /\ Offsets' = [Offsets EXCEPT ![selectedCorner] = C2_Moved(@, e)]
           /\ selectedCorner' = selectedCorner
           /\ SameCanvas
           /\ videoMirrored' = videoMirrored]_vars

\* from an empty store and a loaded 960 pixel wide video, top-left has
\* been moved left by one pixel
C2_Witness ==
    /\ storage.kind = "absent"
    /\ videoSize = <<960, 540>>
    /\ selectedCorner = "TL"
    /\ Offsets["TL"] = [x |-> -18, y |-> 0]

\* ------------------------------------------------------------------- C3
C3_Step(e) == IF e.shiftKey THEN 50 ELSE 10

\* C3: with no corner selected, a directional key changes exactly one of
\* canvasX and canvasY by the pixel step (10, 50 with Shift; 4 and 8
\* decrease, 6 and 2 increase) and leaves the four corner offsets, the
\* scale, mirrored and the mode as they were.
C3_CanvasMove ==
    [][\A e \in PlainEvents :
        (e.code \in {"Numpad8", "Numpad2", "Numpad4", "Numpad6"}
            /\ selectedCorner = "null" /\ KeyDown(e))
        => /\ canvasX' = (CASE e.code = "Numpad4" -> canvasX - C3_Step(e)
                            [] e.code = "Numpad6" -> canvasX + C3_Step(e)
                            [] OTHER -> canvasX)
           /\ canvasY' = (CASE e.code = "Numpad8" -> canvasY - C3_Step(e)
                            [] e.code = "Numpad2" -> canvasY + C3_Step(e)
                            [] OTHER -> canvasY)
           /\ Offsets' = Offsets
           /\ canvasScale' = canvasScale
           /\ videoMirrored' = videoMirrored
           /\ selectedCorner' = "null"]_vars

\* from an empty store the canvas has been moved left with Shift and up without
C3_Witness ==
    /\ storage.kind = "absent"
    /\ selectedCorner = "null"
    /\ canvasX = -50
    /\ canvasY = -10

\* ------------------------------------------------------------------- C4
C4_Mode(code) ==
    CASE code = "Numpad7" -> "TL"
      [] code = "Numpad9" -> "TR"
      [] code = "Numpad1" -> "BL"
      [] code = "Numpad3" -> "BR"
      [] OTHER -> "null"

\* C4: from any mode, Numpad7/9/1/3 select TL/TR/BL/BR and Numpad5 clears
\* the selection; the same event changes no corner offset and no field of
\* the view transform; the mode is always one of the five values.
C4_Selection ==
    /\ [](selectedCorner \in {"null", "TL", "TR", "BL", "BR"})
    /\ [][\A e \in PlainEvents :
            (e.code \in {"Numpad7", "Numpad9", "Numpad1", "Numpad3", "Numpad5"} /\ KeyDown(e))
            => /\ selectedCorner' = C4_Mode(e.code)
               /\ Offsets' = Offsets
               /\ SameCanvas
               /\ videoMirrored' = videoMirrored]_vars

\* bottom-right has been selected, by a handler that scheduled a save
C4_Witness == selectedCorner = "BR" /\ last.op = "keydown" /\ last.save

\* ------------------------------------------------------------------- C5
\* C5: in no-selection mode at scale 1.0, Shift+NumpadAdd makes the scale
\* 1.10, and no key event takes a scale of at most 2.0 above 2.0.
C5_ScaleUp ==
    /\ [][\A e \in PlainEvents :
            (e.code = "NumpadAdd" /\ e.shiftKey /\ selectedCorner = "null"
                /\ canvasScale = 100 /\ KeyDown(e)) => canvasScale' = 110]_vars
    /\ [][(canvasScale <= 200 /\ nKeys' # nKeys) => canvasScale' <= 200]_vars

\* from an empty store (scale 1.0), the scale is 1.10
C5_Witness == storage.kind = "absent" /\ selectedCorner = "null" /\ canvasScale = 110

\* ------------------------------------------------------------------- C6
\* C6: in every reachable state, right after the startup load of any
\* storage content included, canvasScale lies in [0.2, 2.0].
C6_ScaleInRange == canvasScale >= 20 /\ canvasScale <= 200

\* ------------------------------------------------------------------- C7
C7_Settings == <<canvasScale, canvasX, canvasY, videoMirrored, Offsets>>

C7_Written ==
    [kind |-> "object", canvasScale |-> JNum(canvasScale), canvasX |-> JNum(canvasX),
     canvasY |-> JNum(canvasY), mirrored |-> JBool(videoMirrored),
     cornerOffsets |->
        [t |-> "object",
         c |-> [c \in Corners |->
                  [t |-> "object", x |-> JNum(Offsets[c].x), y |-> JNum(Offsets[c].y)]]]]

\* C7: a burst of mutating key events, each within the quiet period of the
\* one before, leads to exactly one write by the debounce timer: while a
\* save is outstanding exactly one timer is pending and it is due 300 ms
\* after the last event, otherwise none is; the timer writes only when
\* 300 ms have passed since the last event, leaves no timer behind, and
\* what it writes is the state in memory, which only key events change.
C7_Debounce ==
    /\ [](IF saveTimer # 0
          THEN timers = {[id |-> saveTimer, left |-> 300 - sinceSave]}
          ELSE timers = {})
    /\ [][\A t \in timers :
            /\ TimerFire(t, TRUE) =>
                 /\ sinceSave = 300
                 /\ timers' = {} /\ saveTimer' = 0
                 /\ storage' = C7_Written
            /\ TimerFire(t, FALSE) =>
                 /\ sinceSave = 300
                 /\ timers' = {} /\ saveTimer' = 0
                 /\ storage' = storage]_vars
    /\ [][C7_Settings' = C7_Settings \/ \E e \in KeyEvents : KeyDown(e)]_vars

\* two key events on an empty store have moved the canvas right twice and
\* the timer has written once: the record holds the state after the second
C7_Witness ==
    /\ nKeys = 2
    /\ canvasX = 20
    /\ last.op = "timer" /\ last.ok
    /\ storage.kind = "object" /\ storage.canvasX = JNum(20)
    /\ timers = {}

\* ------------------------------------------------------------------- C8
\* the state in memory is structurally valid: scale within bounds, x, y
\* and the eight corner components ordinary (finite) numbers
C8_Valid ==
    /\ canvasScale >= 20 /\ canvasScale <= 200
    /\ canvasX > NegInf /\ canvasX < PosInf
    /\ canvasY > NegInf /\ canvasY < PosInf
    /\ \A c \in Corners :
          /\ Offsets[c].x > NegInf /\ Offsets[c].x < PosInf
          /\ Offsets[c].y > NegInf /\ Offsets[c].y < PosInf

\* the state in memory has just been written, by the timer or by the flush
C8_Saved == last.op \in {"timer", "beforeunload"} /\ last.ok

\* C8: round trip: when a structurally valid state (scale within bounds,
\* boolean mirrored, numeric x and y, four corners with numeric x and y)
\* has been written to the slot, loadSettings returns its canvasScale,
\* canvasX, canvasY, mirrored and four corner offsets.
C8_RoundTrip ==
    [][(PageLoad /\ C8_Saved /\ C8_Valid) =>
        /\ canvasScale' = canvasScale
        /\ canvasX' = canvasX
        /\ canvasY' = canvasY
        /\ videoMirrored' = videoMirrored
        /\ Offsets' = Offsets]_vars

\* ------------------------------------------------------------------- C9
C9_TopValid ==
    /\ storage.kind = "object"
    /\ storage.canvasScale.t = "number"
    /\ storage.canvasX.t = "number"
    /\ storage.canvasY.t = "number"
    /\ storage.mirrored.t = "boolean"

C9_Good(jc) == jc.t = "object" /\ jc.x.t = "number" /\ jc.y.t = "number"

\* C9: when the stored record has valid top-level fields and a
\* cornerOffsets object in which some corners are missing or have a
\* non-numeric x or y, the load makes exactly those corners (0,0) and
\* keeps every other corner and canvasScale, canvasX, canvasY and
\* mirrored as stored.
C9_CornerRepair ==
    (last.op = "load" /\ C9_TopValid /\ storage.cornerOffsets.t = "object") =>
        /\ \A c \in Corners :
              LET jc == storage.cornerOffsets.c[c]
              IN IF C9_Good(jc)
                 THEN Offsets[c] = [x |-> jc.x.n, y |-> jc.y.n]
                 ELSE Offsets[c] = [x |-> 0, y |-> 0]
        /\ canvasScale = storage.canvasScale.n
        /\ canvasX = storage.canvasX.n
        /\ canvasY = storage.canvasY.n
        /\ videoMirrored = (storage.mirrored.n = 1)

\* a record without BL has been loaded: BL is (0,0), the others as stored
C9_Witness ==
    /\ last.op = "load" /\ C9_TopValid /\ storage.cornerOffsets.t = "object"
    /\ storage.cornerOffsets.c["BL"].t = "undefined"
    /\ \A c \in Corners \ {"BL"} : C9_Good(storage.cornerOffsets.c[c])
    /\ Offsets = [TL |-> [x |-> 9, y |-> -16], TR |-> [x |-> 0, y |-> 32],
                  BL |-> [x |-> 0, y |-> 0], BR |-> [x |-> 27, y |-> 48]]

\* ------------------------------------------------------------------ C10
\* no entry, unparseable text, or a top-level field of the wrong type
C10_Unusable ==
    \/ storage.kind \in {"absent", "empty", "garbage", "null", "scalar"}
    \/ ~C9_TopValid

\* C10: loadSettings never raises, and with no entry, unparseable text or
\* a record whose canvasScale, canvasX or canvasY is no number or whose
\* mirrored is no boolean it returns the defaults: scale 1.0, x 0, y 0,
\* not mirrored, all four corners (0,0), whatever corners were stored.
C10_Defaults ==
    last.op = "load" =>
        /\ ~last.raised
        /\ C10_Unusable =>
              /\ canvasScale = 100 /\ canvasX = 0 /\ canvasY = 0
              /\ videoMirrored = FALSE
              /\ \A c \in Corners : Offsets[c] = [x |-> 0, y |-> 0]

\* the page has started again on a record whose canvasX is missing and
\* whose corners are all present
C10_Witness ==
    /\ last.op = "load" /\ nKeys > 0
    /\ storage.kind = "object" /\ storage.canvasX.t = "undefined"
    /\ storage.cornerOffsets.c["BR"].t = "object"
    /\ canvasScale = 100 /\ Offsets["BR"] = [x |-> 0, y |-> 0]

\* ------------------------------------------------------------------ C11
\* the four scalar fields in memory are the stored ones, each of its type
C11_StoredTop ==
    /\ storage.kind = "object"
    /\ storage.canvasScale.t = "number" /\ canvasScale = storage.canvasScale.n
    /\ storage.canvasX.t = "number" /\ canvasX = storage.canvasX.n
    /\ storage.canvasY.t = "number" /\ canvasY = storage.canvasY.n
    /\ storage.mirrored.t = "boolean" /\ videoMirrored = (storage.mirrored.n = 1)

C11_DefaultTop ==
    canvasScale = 100 /\ canvasX = 0 /\ canvasY = 0 /\ videoMirrored = FALSE

\* corner c in memory is a stored pair of numbers, or (0,0)
C11_CornerTyped(c) ==
    \/ Offsets[c] = [x |-> 0, y |-> 0]
    \/ /\ storage.kind = "object"
       /\ storage.cornerOffsets.t \in {"object", "array"}
       /\ LET jc == storage.cornerOffsets.c[c]
          IN /\ jc.t = "object" /\ jc.x.t = "number" /\ jc.y.t = "number"
             /\ Offsets[c] = [x |-> jc.x.n, y |-> jc.y.n]

C11_FourCorners ==
    /\ DOMAIN Offsets = {"TL", "TR", "BL", "BR"}
    /\ \A c \in DOMAIN Offsets :
          /\ DOMAIN Offsets[c] = {"x", "y"}
          /\ Offsets[c].x \in Int /\ Offsets[c].y \in Int

\* C11: whatever the storage slot holds, the record loadSettings returns
\* is complete and typed: canvasScale, canvasX, canvasY numbers and
\* mirrored a boolean (the stored ones, or the defaults), cornerOffsets
\* with the four keys TL, TR, BL, BR, each a pair of numbers (the stored
\* pair, or (0,0)); and every key event leaves cornerOffsets with its
\* four keys and numeric pairs.
C11_Complete ==
    /\ [](last.op = "load" =>
            /\ C11_StoredTop \/ C11_DefaultTop
            /\ canvasScale \in Int /\ canvasX \in Int /\ canvasY \in Int
            /\ videoMirrored \in BOOLEAN
            /\ C11_FourCorners
            /\ \A c \in Corners : C11_CornerTyped(c))
    /\ [][nKeys' # nKeys => C11_FourCorners']_vars

\* a stored record whose cornerOffsets is an array has been loaded and a
\* key event has moved the top-left corner
C11_Witness ==
    /\ storage.kind = "object" /\ storage.cornerOffsets.t = "array"
    /\ last.op = "keydown"
    /\ selectedCorner = "TL"
    /\ Offsets["TL"].x = 9

\* ------------------------------------------------------------------ C12
\* C12: in any mode the mirror key flips the mirrored flag (so that two
\* toggles restore it) and changes nothing else: the four corner
\* offsets, the quad's texture coordinates and those a frame would derive
\* from the offsets, canvasScale, canvasX, canvasY and the mode stay.
C12_MirrorToggle ==
    [][\A e \in PlainEvents :
        (e.code = "KeyM" /\ KeyDown(e)) =>
           /\ videoMirrored' = ~videoMirrored
           /\ (~videoMirrored') = videoMirrored
           /\ Offsets' = Offsets
           /\ quadVerts' = quadVerts
           /\ UpdateQuadWithCorners(quadVerts', Offsets')
                = UpdateQuadWithCorners(quadVerts, Offsets)
           /\ SameCanvas
           /\ selectedCorner' = selectedCorner]_vars

\* on an empty store (not mirrored) the flag is set while bottom-right
\* is selected
C12_Witness ==
    /\ storage.kind = "absent"
    /\ selectedCorner = "BR"
    /\ videoMirrored
    /\ nKeys = 2
    /\ Offsets["BR"] = [x |-> 0, y |-> 0]

\* ------------------------------------------------------------------ C13
\* every number in memory is finite and cornerOffsets is a plain object
C13_Plain == C8_Valid /\ heap[cornerOffsets].kind = "object"

C14_Reload ==
    [][(PageLoad /\ last.op = "beforeunload" /\ last.ok /\ C8_Valid) =>
        /\ C7_Settings' = C7_Settings
        /\ selectedCorner' = "null"]_vars

\* ------------------------------------------------------------------ C15
\* the event is routed to one of the handled cases in the current mode
C15_Handled(e) ==
    \/ e.code \in {"Numpad7", "Numpad9", "Numpad1", "Numpad3", "Numpad5"}
    \/ e.code \in {"Numpad8", "Numpad2", "Numpad4", "Numpad6"}
    \/ e.code \in {"NumpadAdd", "NumpadSubtract"} /\ selectedCorner = "null"
    \/ e.code \in {"KeyM", "Space", "KeyF"}
    \/ e.key = "Home"

C15_Untouched ==
    /\ C7_Settings' = C7_Settings
    /\ selectedCorner' = selectedCorner
    /\ timers' = timers /\ saveTimer' = saveTimer
    /\ storage' = storage

\* C15: a key event routed to a handled case (select or deselect, move,
\* scale, mirror, play/pause, fullscreen, jump to start) is suppressed
\* with preventDefault; any other key event changes no state, schedules
\* no save and is not suppressed.
C15_Consumed ==
    [][\A e \in PlainEvents :
        KeyDown(e) =>
            IF C15_Handled(e)
            THEN last'.prevented
            ELSE C15_Untouched /\ ~last'.save /\ ~last'.prevented]_vars

\* ------------------------------------------------------------------ C16
\* C16: a key event that changes scale, x, y, mirrored or a corner offset
\* returns with a debounce timer pending for the full quiet period; a
\* pending timer goes away only by firing (a write attempt) or by being
\* replaced by a newer one, so no change in memory is left without a
\* pending write or a write attempt made after it.
C16_SaveScheduled ==
    /\ [][(nKeys' # nKeys /\ C7_Settings' # C7_Settings) =>
            /\ last'.save
            /\ saveTimer' # 0
            /\ \E t \in timers' : t.id = saveTimer' /\ t.left = 300]_vars
    /\ [][(timers # {} /\ timers' = {}) =>
            \E t \in timers, ok \in BOOLEAN : TimerFire(t, ok)]_vars

\* on an empty store the scale has been stepped up once and the timer
\* has just been set
C16_Witness ==
    /\ storage.kind = "absent"
    /\ canvasScale = 105
    /\ saveTimer = 1
    /\ timers = {[id |-> 1, left |-> 300]}
    /\ last.op = "keydown" /\ last.save

\* ------------------------------------------------------------------ C17
\* C17: a key event whose target is an INPUT, a TEXTAREA or
\* content-editable is ignored, whatever the key and the mode: mode,
\* offsets, scale, x, y and mirrored stay, no save is scheduled, no
\* playback function is called and the event is not suppressed.
C17_EditableIgnored ==
    [][\A e \in KeyEvents :
        (e.editable /\ KeyDown(e)) =>
            /\ C15_Untouched
            /\ sinceSpace' = sinceSpace /\ sinceSave' = sinceSave
            /\ ~last'.save
            /\ last'.cmd = "none"
            /\ ~last'.prevented]_vars

\* with top-left selected and its timer pending, a second key event has
\* been ignored
C17_Witness ==
    /\ storage.kind = "absent"
    /\ selectedCorner = "TL"
    /\ nKeys = 2
    /\ last.op = "keydown" /\ ~last.save /\ ~last.prevented
    /\ Offsets["TL"] = [x |-> 0, y |-> 0]
    /\ timers = {[id |-> 1, left |-> 300]}

\* ------------------------------------------------------------------ C18
\* a failed write: nothing in memory changes, the stored record stays,
\* nothing is raised
C18_Harmless ==
    /\ C7_Settings' = C7_Settings
    /\ selectedCorner' = selectedCorner
    /\ storage' = storage
    /\ ~last'.raised

\* after a failed write a key event that schedules a save leaves exactly
\* one timer, set to the full quiet period
C18_NextSave ==
    (last.op \in {"timer", "beforeunload"} /\ ~last.ok /\ nKeys' # nKeys /\ last'.save)
        => (saveTimer' # 0 /\ timers' = {[id |-> saveTimer', left |-> 300]})

C19_Command(e) ==
    CASE e.code = "Space" -> {"togglePlayPause", "none"}
      [] e.code = "KeyF" -> {"toggleFullscreen"}
      [] OTHER -> {"goToHeadAndPlay"}

\* C19: the play/pause, fullscreen and jump-to-start keys (Space, KeyF,
\* Home), in any mode, change no corner offset, no field of the view
\* transform and not the mode, and schedule no save (a pending timer is
\* left as it is); all they do is call their playback function.
C19_PlaybackKeys ==
    [][\A e \in PlainEvents :
        (e.code \in {"Space", "KeyF", "Home"} /\ KeyDown(e)) =>
            /\ C7_Settings' = C7_Settings
            /\ selectedCorner' = selectedCorner
            /\ ~last'.save
            /\ timers' = timers /\ saveTimer' = saveTimer
            /\ last'.cmd \in C19_Command(e)]_vars

\* with bottom-right selected and its timer pending, Home has been pressed
C19_Witness ==
    /\ selectedCorner = "BR"
    /\ last.op = "keydown" /\ last.cmd = "goToHeadAndPlay"
    /\ nKeys = 2
    /\ timers = {[id |-> 1, left |-> 300]}

\* ------------------------------------------------------------------ C20
\* the coordinate the colour of corner c is looked up at
C20_Final(q, c) ==
    [x |-> IF videoMirrored THEN UnitsPerFrame - VertexAt(q, c).u ELSE VertexAt(q, c).u,
     y |-> VertexAt(q, c).v]
C20_Outside(p) ==
    p.x < 0 \/ p.x > UnitsPerFrame \/ p.y < 0 \/ p.y > UnitsPerFrame
C20_Interpolated(q, c) == [x |-> VertexAt(q, c).u, y |-> VertexAt(q, c).v]

\* C20: the colour lookup uses horizontal coordinate 1 - u when mirrored
\* and u otherwise, the vertical coordinate unchanged; a fragment is opaque
\* black exactly when that final coordinate is below 0 or above 1 on
\* either axis, and otherwise the texture is sampled at that coordinate.
\* So whether a fragment is black depends on its interpolated coordinate
\* alone, and a frame drawn after the mirror was toggled masks the same
\* fragments as the frame before.
C20_ColourLookup ==
    /\ [][Render =>
            \A c \in Corners :
                /\ frame'[c] = IF C20_Outside(C20_Final(quadVerts', c))
                               THEN Black
                               ELSE Texture2D(C20_Final(quadVerts', c))
                /\ (frame'[c] = Black) <=> C20_Outside(C20_Interpolated(quadVerts', c))]_vars
    /\ [][(Render /\ frame # NoFrame /\ quadVerts' = quadVerts) =>
            \A c \in Corners : (frame'[c] = Black) <=> (frame[c] = Black)]_vars

\* a mirrored frame drawn after the mirror key: top-left is 9 units left of
\* the video frame and black, top-right is inside and sampled at 1 - u
C20_Witness ==
    /\ videoMirrored /\ last.op = "keydown" /\ nKeys = 1
    /\ C20_Interpolated(quadVerts, "TL") = [x |-> -9, y |-> 0]
    /\ frame["TL"] = Black
    /\ C20_Interpolated(quadVerts, "TR") = [x |-> 17271, y |-> 0]
    /\ frame["TR"] = Texture2D([x |-> 9, y |-> 0])

\* ------------------------------------------------------------------ C21
\* C21: while a corner is selected no key event changes canvasScale,
\* canvasX or canvasY.  A directional key changes the offset of the
\* selected corner and nothing else of the settings; NumpadAdd and
\* NumpadSubtract change nothing at all (settings, mode, timer, stored
\* record) and schedule no save.
C21_CornerModeCanvas ==
    /\ [][(selectedCorner # "null" /\ nKeys' # nKeys) => SameCanvas]_vars
    /\ [][\A e \in PlainEvents :
            (selectedCorner # "null" /\ e.code \in MoveKeys \cup ScaleKeys /\ KeyDown(e)) =>
                IF e.code \in MoveKeys
                THEN /\ Offsets'[selectedCorner] # Offsets[selectedCorner]
                     /\ \A c \in Corners \ {selectedCorner} : Offsets'[c] = Offsets[c]
                     /\ videoMirrored' = videoMirrored
                     /\ selectedCorner' = selectedCorner
                ELSE /\ C7_Settings' = C7_Settings
                     /\ selectedCorner' = selectedCorner
                     /\ ~last'.save
                     /\ timers' = timers /\ saveTimer' = saveTimer
                     /\ storage' = storage]_vars

\* top-right was selected near the upper scale limit and a second key,
\* which scheduled no save, has left the scale and the timer of the
\* selection as they were
C21_Witness ==
    /\ selectedCorner = "TR" /\ nKeys = 2
    /\ last.op = "keydown" /\ ~last.save /\ ~last.prevented /\ last.cmd = "none"
    /\ canvasScale = 195 /\ canvasX = 10 /\ canvasY = -50
    /\ timers = {[id |-> 1, left |-> 300]}

\* ------------------------------------------------------------------ C22
\* C22: key events never modify the compiled-in default record: the
\* cornerOffsets object of DEFAULT_SETTINGS holds (0,0) for all four
\* corners in every state, so loadSettings on an empty slot returns
\* all-zero offsets whenever it is called.
C22_DefaultsIntact ==
    /\ heap[RefDefault].off = ZeroOffsets
    /\ heap[LoadSettings(NonObject("absent")).cornerOffsets].off = ZeroOffsets

\* ------------------------------------------------------------------ C23
\* C23: at most one debounce timer is pending at any time, and the handle
\* is null exactly when none is (otherwise it is the id of the pending
\* one).  Every call of saveSettingsDebounced leaves exactly one timer,
\* the new one with the full delay, whatever was pending before; when the
\* timer fires the handle is null again and nothing is pending.
C23_OneTimer ==
    /\ [](/\ Cardinality(timers) <= 1
          /\ saveTimer = 0 <=> timers = {}
          /\ \A t \in timers : t.id = saveTimer)
    /\ [][(nKeys' # nKeys /\ last'.save) =>
            /\ Cardinality(timers') = 1
            /\ \A t \in timers' : t.id = saveTimer' /\ t.left = SAVE_DELAY]_vars
    /\ [][\A t \in timers, ok \in BOOLEAN :
            TimerFire(t, ok) => (saveTimer' = 0 /\ timers' = {})]_vars

\* two saves on an empty store: one timer is pending, with the full
\* delay, and nothing has been written
C23_Witness ==
    /\ storage.kind = "absent"
    /\ nKeys = 2 /\ canvasX = 20
    /\ last.op = "keydown" /\ last.save
    /\ saveTimer # 0
    /\ timers = {[id |-> saveTimer, left |-> 300]}

\* ------------------------------------------------------------------ C24
\* C24: after a key event that scheduled a save, once key events have
\* stopped and with storage writes succeeding, eventually and from then on
\* the stored record holds the scale, x, y, mirrored and corner offsets in
\* memory and no debounce timer is pending.
C24_EventuallySaved ==
    [](last.save => <>[](storage = C7_Written /\ timers = {} /\ saveTimer = 0))

\* the scale was stepped down on a store that held 0.25, the timer has
\* fired and the record holds the new scale
C24_Witness ==
    /\ nKeys = 1 /\ canvasScale = 20
    /\ last.op = "timer" /\ last.ok
    /\ storage = C7_Written
    /\ timers = {} /\ saveTimer = 0

C26_Default(c) ==
    CASE c = "TL" -> [x |-> 0, y |-> 0]
      [] c = "TR" -> [x |-> 17280, y |-> 0]
      [] c = "BL" -> [x |-> 0, y |-> 17280]
      [] OTHER -> [x |-> 17280, y |-> 17280]

\* C26: every frame draws the corner indicator if and only if a corner is
\* selected.  With no selection the overlay is cleared and nothing is
\* drawn; with corner c selected one circle is drawn, at
\* ((default(c).x + offsets[c].x) * overlay width,
\*  (default(c).y + offsets[c].y) * overlay height), with the offsets of
\* that frame.
C26_Indicator ==
    [][Render =>
        IF selectedCorner = "null"
        THEN overlay' = [corner |-> "null", x |-> 0, y |-> 0]
        ELSE overlay' =
                [corner |-> selectedCorner,
                 x |-> (C26_Default(selectedCorner).x + Offsets[selectedCorner].x) * 1280,
                 y |-> (C26_Default(selectedCorner).y + Offsets[selectedCorner].y) * 720]]_vars

\* bottom-right, stored 27 units right and 48 down, was selected and moved
\* left by one pixel of the 960-wide video; the frame drew its circle there
C26_Witness ==
    /\ selectedCorner = "BR" /\ nKeys = 2 /\ videoSize = <<960, 540>>
    /\ Offsets["BR"] = [x |-> 9, y |-> 48]
    /\ overlay = [corner |-> "BR", x |-> 17289 * 1280, y |-> 17328 * 720]

\* ------------------------------------------------------------------ C27
\* C27: no frame callback is pending before the render loop starts and
\* exactly one is from then on: the start schedules one and every frame
\* schedules one at its end.  A frame whose texture upload fails leaves
\* the texture as it was and still updates the quad, draws, draws the
\* indicator and schedules the next frame, in which the upload can succeed.
C27_RenderLoop ==
    /\ [](rafPending = (IF videoSize = <<0, 0>> THEN 0 ELSE 1))
    /\ [][rafPending = 1 => rafPending' = 1]_vars
    /\ [][\A uploaded \in BOOLEAN :
            RenderFrame(uploaded) =>
                /\ rafPending' = 1
                /\ texture' = (IF uploaded THEN "video" ELSE texture)
                /\ quadVerts' = UpdateQuadWithCorners(quadVerts, Offsets)
                /\ frame' # NoFrame
                /\ overlay'.corner = selectedCorner]_vars
    /\ [](rafPending = 1 => ENABLED RenderFrame(TRUE))

\* a frame whose upload failed has moved the quad to the stored offsets,
\* drawn it and the indicator, and the next frame is pending
C27_Witness ==
    /\ texture = "empty"
    /\ frame # NoFrame
    /\ quadVerts # InitialQuad
    /\ selectedCorner = "TL" /\ overlay.corner = "TL"
    /\ rafPending = 1

\* ------------------------------------------------------------------ C28
\* the corner of each vertex and its clip-space position, in buffer order
C28_Order == <<"BL", "BR", "TL", "TL", "BR", "TR">>
C28_Position == << <<-1, -1>>, <<1, -1>>, <<-1, 1>>, <<-1, 1>>, <<1, -1>>, <<1, 1>> >>

\* C28: the six vertices are, in order, BL, BR, TL (triangle 1) and TL,
\* BR, TR (triangle 2); their clip-space positions never change; after
\* every frame each vertex carries the texture coordinate of its corner,
\* so the two TL vertices agree and the two BR vertices agree.
C28_VertexOrder ==
    /\ [](\A i \in 1..6 : <<quadVerts[i].x, quadVerts[i].y>> = C28_Position[i])
    /\ [][Render =>
            \A i \in 1..6 :
                /\ quadVerts'[i].u = C1_Default(C28_Order[i]).x - Offsets[C28_Order[i]].x
                /\ quadVerts'[i].v = C1_Default(C28_Order[i]).y - Offsets[C28_Order[i]].y]_vars
    /\ [](quadVerts[3] = quadVerts[4] /\ quadVerts[2] = quadVerts[5])

\* a frame drawn with the stored offsets TL = (9, -16) and BR = (27, 48)
C28_Witness ==
    /\ frame # NoFrame
    /\ quadVerts[3] = [x |-> -1, y |-> 1, u |-> -9, v |-> 16]
    /\ quadVerts[4] = quadVerts[3]
    /\ quadVerts[2] = [x |-> 1, y |-> -1, u |-> 17253, v |-> 17232]
    /\ quadVerts[5] = quadVerts[2]

\* ------------------------------------------------------------------ C29
\* C29: a key event that selects a corner or deselects changes no
\* persisted field, yet calls saveSettingsDebounced: whatever timer was
\* pending is cancelled and exactly one timer, with the full delay, is
\* pending afterwards.  The write of a timer that fires carries the scale,
\* x, y, mirrored and offsets in memory at that moment.
C29_SelectionSaves ==
    /\ [][\A e \in PlainEvents :
            (e.code \in SelectKeys /\ KeyDown(e)) =>
                /\ C7_Settings' = C7_Settings
                /\ last'.save /\ last'.prevented
                /\ saveTimer' # 0
                /\ timers' = {[id |-> saveTimer', left |-> 300]}
                /\ \A t \in timers : t.left < 300 => t \notin timers']_vars
    /\ [][(last'.op = "timer" /\ last'.ok /\ last' # last) => storage' = C7_Written']_vars

\* on an empty store bottom-left was selected, nothing else was pressed,
\* and the timer has written the (default) values in memory
C29_Witness ==
    /\ nKeys = 1 /\ selectedCorner = "BL"
    /\ last.op = "timer" /\ last.ok
    /\ canvasScale = 100 /\ ~videoMirrored
    /\ storage = C7_Written
    /\ timers = {}

\* ------------------------------------------------------------------ C30
\* C30: a Space key event toggles playback only when at least 250 ms have
\* passed since the last Space event that toggled it; the time since that
\* event is set back to zero by a toggle and by nothing else, so two
\* toggles are at least 250 ms apart.  A Space event inside the window
\* calls no playback function and changes nothing: settings, mode, timer,
\* stored record and the start of the window stay as they are.
C30_RateLimit ==
    /\ [][\A e \in PlainEvents :
            (e.code = "Space" /\ KeyDown(e)) =>
                IF sinceSpace >= 250
                THEN last'.cmd = "togglePlayPause" /\ sinceSpace' = 0
                ELSE /\ last'.cmd = "none"
                     /\ sinceSpace' = sinceSpace
                     /\ C7_Settings' = C7_Settings
                     /\ selectedCorner' = selectedCorner
                     /\ ~last'.save
                     /\ timers' = timers /\ saveTimer' = saveTimer
                     /\ storage' = storage]_vars
    /\ [][sinceSpace' < sinceSpace =>
            /\ sinceSpace = 250 /\ sinceSpace' = 0
            /\ nKeys' # nKeys /\ last'.cmd = "togglePlayPause"]_vars
    /\ [][(last'.cmd = "togglePlayPause" /\ nKeys' # nKeys) => sinceSpace = 250]_vars

\* a key pressed 150 ms after a toggle called no playback function, and
\* the window still runs from the toggle
C30_Witness ==
    /\ nKeys = 2 /\ sinceSpace = 150
    /\ last.op = "keydown" /\ last.cmd = "none" /\ ~last.prevented /\ ~last.save
    /\ timers = {} /\ selectedCorner = "null"

====
